---- MODULE Spec2Model ----
(***************************************************************************)
(* Model of the matching core of immich-takeout                            *)
(* (src/immich_takeout/metadata_matching.py): the filename normaliser, the *)
(* truncated-name recoverer, the streaming matcher extract_metadata (a     *)
(* generator, suspended at its yield) and the end-of-stream cleanup of     *)
(* motion-photo videos and edited variants; and of the processing stage    *)
(* process_files with its timestamp reconciler check_timestamp_exif        *)
(* (src/immich_takeout/process_files.py).                                  *)
(*                                                                         *)
(* A file name is a sequence of one-character strings, so that the string  *)
(* operations of the source (endswith, rsplit, os.path.splitext, slicing)  *)
(* are computed character by character.                                    *)
(***************************************************************************)
EXTENDS Integers, Sequences, FiniteSets, TLC

(***************************************************************************)
(* String primitives used by the source                                    *)
(***************************************************************************)

\* str.endswith(suffix)
EndsWith(s, suf) ==
    /\ Len(s) >= Len(suf)
    /\ SubSeq(s, Len(s) - Len(suf) + 1, Len(s)) = suf

\* str.startswith(prefix)
StartsWith(s, pre) ==
    /\ Len(s) >= Len(pre)
    /\ SubSeq(s, 1, Len(pre)) = pre

\* `sub in s` for strings
Contains(s, sub) ==
    \E i \in 1..(Len(s) - Len(sub) + 1) : SubSeq(s, i, i + Len(sub) - 1) = sub

\* str.rfind(c) for a single character, 1-based, 0 when absent
RFind(s, c) ==
    LET hits == {i \in 1..Len(s) : s[i] = c}
    IN  IF hits = {} THEN 0 ELSE CHOOSE i \in hits : \A j \in hits : j <= i

\* str.find(c) for a single character, 1-based, 0 when absent
Find(s, c) ==
    LET hits == {i \in 1..Len(s) : s[i] = c}
    IN  IF hits = {} THEN 0 ELSE CHOOSE i \in hits : \A j \in hits : i <= j

\* str.lower() on ASCII letters
UpperLetters ==
    <<"A", "B", "C", "D", "E", "F", "G", "H", "I", "J", "K", "L", "M",
      "N", "O", "P", "Q", "R", "S", "T", "U", "V", "W", "X", "Y", "Z">>

LowerLetters ==
    <<"a", "b", "c", "d", "e", "f", "g", "h", "i", "j", "k", "l", "m",
      "n", "o", "p", "q", "r", "s", "t", "u", "v", "w", "x", "y", "z">>

LowerChar(c) ==
    IF \E i \in 1..Len(UpperLetters) : UpperLetters[i] = c
    THEN LowerLetters[CHOOSE i \in 1..Len(UpperLetters) : UpperLetters[i] = c]
    ELSE c

Lower(s) == [i \in 1..Len(s) |-> LowerChar(s[i])]

\* os.path.splitext(p) (posixpath): the extension starts at the last dot of
\* the last path component, unless that component has only leading dots
\* before it.
SplitExt(p) ==
    LET sep == RFind(p, "/")
        dot == RFind(p, ".")
    IN  IF dot > sep /\ \E i \in (sep + 1)..(dot - 1) : p[i] # "."
        THEN <<SubSeq(p, 1, dot - 1), SubSeq(p, dot, Len(p))>>
        ELSE <<p, <<>>>>

\* os.path.basename(p)
Basename(p) == SubSeq(p, RFind(p, "/") + 1, Len(p))

\* str.rstrip("/")
RECURSIVE RStripSep(_)
RStripSep(s) ==
    IF Len(s) > 0 /\ s[Len(s)] = "/" THEN RStripSep(SubSeq(s, 1, Len(s) - 1)) ELSE s

\* os.path.dirname(p)
Dirname(p) ==
    LET head == SubSeq(p, 1, RFind(p, "/"))
    IN  IF head # <<>> /\ \E i \in 1..Len(head) : head[i] # "/"
        THEN RStripSep(head)
        ELSE head

\* os.path.join(a, b)
PathJoin(a, b) ==
    IF StartsWith(b, <<"/">>) THEN b
    ELSE IF a = <<>> \/ EndsWith(a, <<"/">>) THEN a \o b
    ELSE a \o <<"/">> \o b

\* s[:n] for a Python slice bound n (a negative n counts from the end)
SliceTo(s, n) ==
    IF n >= 0
    THEN SubSeq(s, 1, IF n < Len(s) THEN n ELSE Len(s))
    ELSE SubSeq(s, 1, IF Len(s) + n > 0 THEN Len(s) + n ELSE 0)

(***************************************************************************)
(* Name fragments                                                          *)
(***************************************************************************)
DotJson == <<".", "j", "s", "o", "n">>
DotJpg == <<".", "j", "p", "g">>
DotPng == <<".", "p", "n", "g">>
DotMp4 == <<".", "m", "p", "4">>
DotMP == <<".", "M", "P">>
DotMPSpace == <<".", "M", "P", " ">>
DotMPTilde == <<".", "M", "P", "~">>
Edited == <<"-", "e", "d", "i", "t", "e", "d">>
ArchiveBrowser ==
    <<"a", "r", "c", "h", "i", "v", "e", "_", "b", "r", "o", "w", "s", "e", "r",
      ".", "h", "t", "m", "l">>
Num1 == <<"(", "1", ")">>

MAX_NAME_LENGTH == 90

\* Mutant: the extension is split off the whole name, not off the part before
\* the numbering marker.
NormaliseSplitsWholeName(raw) ==
    LET was_metadata == EndsWith(raw, DotJson)
        filename == IF was_metadata THEN SplitExt(raw)[1] ELSE raw
    IN  IF ~EndsWith(filename, <<")">>)
        THEN [ok |-> TRUE, key |-> filename, meta |-> was_metadata]
        ELSE LET open == RFind(filename, "(")
             IN  IF open = 0
                 THEN [ok |-> FALSE, key |-> filename, meta |-> was_metadata]
                 ELSE LET remainder == SubSeq(filename, open + 1, Len(filename))
                          parts == SplitExt(filename)
                      IN  [ok |-> TRUE,
                           key |-> parts[1] \o <<"(">> \o remainder \o parts[2],
                           meta |-> was_metadata]

\* Mutant: the numbering marker is left where it stands.
NormaliseKeepsMarker(raw) ==
    LET was_metadata == EndsWith(raw, DotJson)
        filename == IF was_metadata THEN SplitExt(raw)[1] ELSE raw
    IN  [ok |-> TRUE, key |-> filename, meta |-> was_metadata]

(***************************************************************************)
(* normalise_filename: the result is [ok, key, meta]; ok is FALSE when the *)
(* source raises (rsplit yields one part and the unpacking fails).         *)
(***************************************************************************)
Normalise(raw) ==
    LET was_metadata == EndsWith(raw, DotJson)
        filename == IF was_metadata THEN SplitExt(raw)[1] ELSE raw
    IN  IF ~EndsWith(filename, <<")">>)
        THEN [ok |-> TRUE, key |-> filename, meta |-> was_metadata]
        ELSE LET open == RFind(filename, "(")
             IN  IF open = 0
                 THEN [ok |-> FALSE, key |-> filename, meta |-> was_metadata]
                 ELSE LET base == SubSeq(filename, 1, open - 1)
                          remainder == SubSeq(filename, open + 1, Len(filename))
                          parts == SplitExt(base)
                      IN  [ok |-> TRUE,
                           key |-> parts[1] \o <<"(">> \o remainder \o parts[2],
                           meta |-> was_metadata]

(***************************************************************************)
(* extract_number_from_filename: [ok, val]; ok is FALSE when rsplit finds  *)
(* no "(" and the unpacking raises.                                        *)
(***************************************************************************)
ExtractNumberFromFilename(filename) ==
    IF ~EndsWith(filename, <<")">>) /\ ~Contains(filename, <<")", ".">>)
    THEN [ok |-> TRUE, val |-> <<>>]
    ELSE LET open == RFind(filename, "(")
         IN  IF open = 0
             THEN [ok |-> FALSE, val |-> <<>>]
             ELSE LET remainder == SubSeq(filename, open + 1, Len(filename))
                      cut == IF Contains(remainder, <<".">>)
                             THEN SplitExt(remainder)[1]
                             ELSE remainder
                  IN  [ok |-> TRUE, val |-> <<"(">> \o cut]

(***************************************************************************)
(* rebuild_numbered_filename: test(2).MP -> test.MP(2).jpg; ok is FALSE    *)
(* when rsplit("(") or split(")") yields one part only.                    *)
(***************************************************************************)
RebuildNumberedFilename(filename, number, new_ext) ==
    LET open == RFind(filename, "(")
    IN  IF open = 0
        THEN [ok |-> FALSE, val |-> <<>>]
        ELSE LET base == SubSeq(filename, 1, open - 1)
                 remainder == SubSeq(filename, open + 1, Len(filename))
                 close == Find(remainder, ")")
             IN  IF close = 0
                 THEN [ok |-> FALSE, val |-> <<>>]
                 ELSE [ok |-> TRUE,
                       val |-> base \o SubSeq(remainder, close + 1, Len(remainder))
                                    \o number \o new_ext]

\* Mutant: every key at or above the threshold is rebuilt, its basename
\* equal to the title or not.
FixTruncatedNameLengthOnly(filename, title) ==
    IF Len(filename) >= MAX_NAME_LENGTH - Len(DotJson)
    THEN LET parts == SplitExt(title)
             dirname == Dirname(filename)
             numbered_mark == ExtractNumberFromFilename(filename)
             new_filename ==
                 SliceTo(parts[1], MAX_NAME_LENGTH - Len(dirname) - Len(parts[2]) - 1)
                     \o numbered_mark.val \o parts[2]
         IN  [ok |-> numbered_mark.ok, key |-> PathJoin(dirname, new_filename)]
    ELSE [ok |-> TRUE, key |-> filename]

(***************************************************************************)
(* fix_truncated_name(filename, metadata), given metadata["title"]         *)
(***************************************************************************)
FixTruncatedName(filename, title) ==
    IF Basename(filename) # title /\ Len(filename) >= MAX_NAME_LENGTH - Len(DotJson)
    THEN LET parts == SplitExt(title)
             dirname == Dirname(filename)
             numbered_mark == ExtractNumberFromFilename(filename)
             new_filename ==
                 SliceTo(parts[1], MAX_NAME_LENGTH - Len(dirname) - Len(parts[2]) - 1)
                     \o numbered_mark.val \o parts[2]
         IN  [ok |-> numbered_mark.ok, key |-> PathJoin(dirname, new_filename)]
    ELSE [ok |-> TRUE, key |-> filename]

(***************************************************************************)
(* match_files: the keys of the pair to join, or hit = FALSE               *)
(***************************************************************************)
NoMatch == [hit |-> FALSE, file |-> <<>>, meta |-> <<>>]

\* Mutant: the fallbacks are tried before the exact match.
MatchFilesFallbackFirst(was_metadata, filename, file_keys, meta_keys) ==
    LET ext == SplitExt(filename)[2]
        filename_jpg == filename \o <<".">> \o <<"j", "p", "g">>
        filename_noext == SplitExt(filename)[1]
    IN  IF was_metadata /\ ext = <<>>
               /\ filename \in meta_keys /\ filename_jpg \in file_keys
        THEN [hit |-> TRUE, file |-> filename_jpg, meta |-> filename]
        ELSE IF ~was_metadata /\ ext # <<>>
                 /\ filename_noext \in meta_keys /\ filename \in file_keys
        THEN [hit |-> TRUE, file |-> filename, meta |-> filename_noext]
        ELSE IF filename \in file_keys /\ filename \in meta_keys
        THEN [hit |-> TRUE, file |-> filename, meta |-> filename]
        ELSE NoMatch

MatchFiles(was_metadata, filename, file_keys, meta_keys) ==
    LET ext == SplitExt(filename)[2]
        filename_jpg == filename \o <<".">> \o <<"j", "p", "g">>
        filename_noext == SplitExt(filename)[1]
    IN  IF filename \in file_keys /\ filename \in meta_keys
        THEN [hit |-> TRUE, file |-> filename, meta |-> filename]
        ELSE IF was_metadata /\ ext = <<>>
                 /\ filename \in meta_keys /\ filename_jpg \in file_keys
        THEN [hit |-> TRUE, file |-> filename_jpg, meta |-> filename]
        ELSE IF ~was_metadata /\ ext # <<>>
                 /\ filename_noext \in meta_keys /\ filename \in file_keys
        THEN [hit |-> TRUE, file |-> filename, meta |-> filename_noext]
        ELSE NoMatch

(***************************************************************************)
(* cleanup_motion_videos, one leftover name: the still-image name each     *)
(* block computes, the number of `del tar_infos[full_fname]` statements    *)
(* the loop body runs for it, and whether the body raises (a failed        *)
(* unpacking, or a second del of the same key).                            *)
(***************************************************************************)
IsNumbered(fname) == EndsWith(fname, <<")">>) /\ Contains(fname, <<"(">>)

\* Samsung block, lines 85-97
SamsungApplies(full_fname) == Lower(SplitExt(full_fname)[2]) = DotMp4

SamsungJpeg(full_fname) ==
    LET fname == SplitExt(full_fname)[1]
    IN  IF IsNumbered(fname)
        THEN RebuildNumberedFilename(fname, ExtractNumberFromFilename(fname).val, DotJpg)
        ELSE [ok |-> TRUE, val |-> fname \o DotJpg]

\* Google pixel block, lines 98-110
PixelApplies(full_fname) ==
    LET ext == SplitExt(full_fname)[2]
    IN  ext \in {DotMP, DotMPSpace} \/ StartsWith(ext, DotMPTilde)

PixelJpeg(full_fname) ==
    LET fname == SplitExt(full_fname)[1]
    IN  IF IsNumbered(fname)
        THEN RebuildNumberedFilename(full_fname, ExtractNumberFromFilename(fname).val,
                                     DotJpg)
        ELSE [ok |-> TRUE, val |-> full_fname \o DotJpg]

\* Mutant: the marker is looked for at the end of the whole name.
IsEditedFullName(full_fname) == EndsWith(full_fname, Edited)

\* edited block, lines 111-113
IsEdited(full_fname) == EndsWith(SplitExt(full_fname)[1], Edited)

\* The loop body for one name: [dels, raises]. dels counts the del statements
\* that succeed; raises says the body ends in an exception.
CleanupBody(full_fname, seen) ==
    LET samsung == SamsungApplies(full_fname)
        pixel == PixelApplies(full_fname)
        sJpeg == SamsungJpeg(full_fname)
        pJpeg == PixelJpeg(full_fname)
        sRaise == samsung /\ ~sJpeg.ok
        sDel == samsung /\ sJpeg.ok /\ sJpeg.val \in seen
        pRaise == pixel /\ ~pJpeg.ok
        pDel == pixel /\ pJpeg.ok /\ pJpeg.val \in seen
        eDel == IsEdited(full_fname)
    IN  IF sRaise THEN [dels |-> 0, raises |-> TRUE]
        ELSE IF pRaise THEN [dels |-> IF sDel THEN 1 ELSE 0, raises |-> TRUE]
        ELSE IF sDel /\ pDel THEN [dels |-> 1, raises |-> TRUE]
        ELSE IF (sDel \/ pDel) /\ eDel THEN [dels |-> 1, raises |-> TRUE]
        ELSE [dels |-> IF sDel \/ pDel \/ eDel THEN 1 ELSE 0, raises |-> FALSE]

\* cleanup_motion_videos(tar_infos, seen): the possible results [ok, keys],
\* keys being the names left in tar_infos. The loop runs over a set, in no
\* particular order; when a body raises, the names not yet visited are kept.
CleanupMotionVideos(names, seen) ==
    LET raising == {n \in names : CleanupBody(n, seen).raises}
        deleted(S) == {n \in S : CleanupBody(n, seen).dels > 0}
    IN  IF raising = {}
        THEN {[ok |-> TRUE, keys |-> names \ deleted(names)]}
        ELSE {[ok |-> FALSE, keys |-> names \ deleted(visited \cup {c})] :
                  <<c, visited>> \in
                      {p \in raising \X SUBSET (names \ raising) : TRUE}}

(***************************************************************************)
(* The run: archives, their entries and the sidecar payloads                *)
(***************************************************************************)
MaxEntries == 4    \* entries read in one run, over all archives
MaxTars == 2       \* archives handed to extract_metadata

A == <<"a">>
D == <<"d", "/">>
JpgA == A \o DotJpg

\* The file write_file writes, and the file main2.py builds its tracker on
UploadedJson == "uploaded.json"

UploadedMain2Json == "uploaded_main2.json"

\* The raw entry names one run's archives draw from and the titles a sidecar
\* payload may carry, with the file the tracker is built on: its name,
\* whether it is there when the program starts, and the names it lists.
Scenarios ==
    { \* extension dropped on the sidecar, the HTML index
      [names |-> {JpgA, A \o DotPng, JpgA \o DotJson, A \o DotJson,
                  D \o ArchiveBrowser},
       filename |-> UploadedMain2Json, on_disk |-> FALSE,
       skip |-> {}, titles |-> {A}],
      \* an asset uploaded by an earlier run
      [names |-> {JpgA, JpgA \o DotJson, A \o DotJson, A \o DotPng},
       filename |-> UploadedJson, on_disk |-> TRUE,
       skip |-> {JpgA}, titles |-> {JpgA}],
      \* numbered duplicates, in both sidecar styles
      [names |-> {D \o JpgA, D \o JpgA \o DotJson, D \o A \o Num1 \o DotJpg,
                  D \o JpgA \o Num1 \o DotJson, D \o A \o Num1 \o DotJpg \o DotJson,
                  D \o JpgA \o Num1},
       filename |-> UploadedMain2Json, on_disk |-> TRUE,
       skip |-> {}, titles |-> {JpgA}],
      \* Google pixel motion photos, numbered and not
      [names |-> {A \o DotMP, A \o DotMP \o DotJpg, A \o DotMP \o DotJpg \o DotJson,
                  A \o Num1 \o DotMP, A \o DotMP \o Num1 \o DotJpg,
                  A \o DotMP \o DotJpg \o Num1 \o DotJson},
       filename |-> UploadedJson, on_disk |-> FALSE,
       skip |-> {}, titles |-> {A \o DotMP \o DotJpg}],
      \* edited variants, a name that cannot be split at its parenthesis
      [names |-> {A \o Edited \o DotJpg, A \o Edited \o DotMP,
                  A \o Edited \o DotMP \o DotJpg,
                  A \o Edited \o DotMP \o DotJpg \o DotJson,
                  D \o A \o Edited \o DotMP,
                  A \o <<")">>},
       filename |-> UploadedMain2Json, on_disk |-> FALSE,
       skip |-> {}, titles |-> {JpgA}],
      \* Samsung motion photos
      [names |-> {A \o DotMp4, A \o Num1 \o DotMp4, JpgA, JpgA \o DotJson},
       filename |-> UploadedJson, on_disk |-> TRUE,
       skip |-> {}, titles |-> {JpgA}] }

\* json.load and metadata["title"]: the payload parses and has a title, does
\* not parse, or parses without a title. taken tells whether LocalFile can
\* read the payload's photoTakenTime: "ok" when it is absent or holds a
\* timestamp, "unusable" when it holds none that int() and fromtimestamp accept.
Payloads(titles) ==
    {[kind |-> "ok", title |-> t, taken |-> tk] :
         t \in titles, tk \in {"ok", "unusable"}}
        \cup {[kind |-> "malformed", title |-> <<>>, taken |-> "none"],
              [kind |-> "notitle", title |-> <<>>, taken |-> "none"]}

NoPayload == [kind |-> "none", title |-> <<>>, taken |-> "none"]
NoYield == [filename |-> <<>>, name |-> <<>>, meta |-> <<>>]
NoEntry == [name |-> <<>>, payload |-> NoPayload, outcome |-> "none", key |-> <<>>]
EmptyMap == [k \in {} |-> 0]

Without(f, k) == [x \in DOMAIN f \ {k} |-> f[x]]
With(f, k, v) == [x \in DOMAIN f \cup {k} |-> IF x = k THEN v ELSE f[x]]

VARIABLES
    scenario,   \* the names, tracker file contents and titles of this run
    skip,       \* ProcessedFileTracker.items
    tar,        \* index of the archive being read
    nread,      \* entries read so far
    tar_infos,  \* key -> [name, tar]: the media entries not yet joined
    metadata,   \* key -> [title, tar_name, metadata_filename]
    seen,       \* keys marked as matched
    pc,         \* "read", "yield" (suspended at the yield), "done", "failed"
    yielded,    \* the locals the generator holds across the yield
    emitted,    \* the LocalFile values handed to the consumer, in order
    report,     \* the calls made on the Report collaborator, in order
    first,      \* the first entry read, and what became of it
    last,       \* the entry the last ReadEntry processed, and what became of it
    leftover,   \* whether cleanup_motion_videos was called, and tar_infos' keys then
    norm_raw,   \* a raw name handed to normalise_filename
    norm_once,  \* normalise_filename(norm_raw), once computed
    norm_twice, \* normalise_filename of the key of norm_once, once computed
    fix_key,    \* a sidecar key handed to fix_truncated_name
    fix_title,  \* the title of the payload handed with it
    fix_out,    \* fix_truncated_name(fix_key, {"title": fix_title}), once computed
    exif_time,  \* check_timestamp_exif's exif_time: absent, naive or with an offset
    exif_gps,   \* its exif_gps: absent, or a (latitude, longitude) pair
    metadata_time,  \* its metadata_time: the sidecar's capture time, in UTC
    ts_out,      \* what check_timestamp_exif returned, once called
    items,        \* the LocalFile values process_files is given, in order
    item_no,      \* how many of them it has taken
    proc_pc,      \* "run", "done", "failed" (an exception left process_files)
    downstream,   \* the items process_files yielded, in order
    proc_report,  \* the calls process_files made on the Report, in order
    disk          \* the tracker's file and "uploaded.json": name -> contents

mvars == <<scenario, skip, tar, nread, tar_infos, metadata, seen, pc, yielded,
           emitted, report, first, last, leftover, disk>>

nvars == <<norm_raw, norm_once, norm_twice>>

fvars == <<fix_key, fix_title, fix_out>>

\* the variables of the pure functions checked on their own
tvars == <<exif_time, exif_gps, metadata_time, ts_out>>

\* the variables of process_files
pvars == <<items, item_no, proc_pc, downstream, proc_report>>

purevars == <<nvars, fvars, tvars, pvars>>

vars == <<mvars, purevars>>

NotCalled == [ok |-> FALSE, key |-> <<>>, meta |-> FALSE, called |-> FALSE]

NotFixed == [ok |-> FALSE, key |-> <<>>, called |-> FALSE]

\* A file that is not there, and a file that lists names
Absent == [exists |-> FALSE, names |-> {}]

Holding(names) == [exists |-> TRUE, names |-> names]

\* The tracker's file as the program finds it, "uploaded.json" absent unless
\* it is that file
DiskAtStart ==
    [f \in {scenario.filename, UploadedJson} |->
        IF f = scenario.filename /\ scenario.on_disk
        THEN Holding(scenario.skip)
        ELSE Absent]

\* The matcher at rest, as the pure-function specifications leave it
MatcherIdle ==
    /\ scenario = [names |-> {}, filename |-> UploadedJson, on_disk |-> FALSE,
                   skip |-> {}, titles |-> {}]
    /\ skip = {}
    /\ tar = 1
    /\ nread = 0
    /\ tar_infos = EmptyMap
    /\ metadata = EmptyMap
    /\ seen = {}
    /\ pc = "idle"
    /\ yielded = NoYield
    /\ emitted = <<>>
    /\ report = <<>>
    /\ first = NoEntry
    /\ last = NoEntry
    /\ leftover = [called |-> FALSE, keys |-> {}]
    /\ disk = DiskAtStart

NormIdle == norm_raw = <<>> /\ norm_once = NotCalled /\ norm_twice = NotCalled

FixIdle == fix_key = <<>> /\ fix_title = <<>> /\ fix_out = NotFixed

\* A datetime: kind "none" is None, "naive" has no tzinfo, "aware" has one.
\* wall is the wall-clock reading in seconds, off the UTC offset in minutes.
NoTime == [kind |-> "none", wall |-> 0, off |-> 0, tz |-> "none"]
NoGps == <<>>
NotReconciled == [ok |-> FALSE, flag |-> FALSE, time |-> NoTime, called |-> FALSE]

TimeIdle ==
    /\ exif_time = NoTime
    /\ exif_gps = NoGps
    /\ metadata_time = NoTime
    /\ ts_out = NotReconciled

ProcIdle ==
    /\ items = <<>>
    /\ item_no = 0
    /\ proc_pc = "idle"
    /\ downstream = <<>>
    /\ proc_report = <<>>

\* ProcessedFileTracker.__init__ leaves items empty; the generator has not
\* read an entry yet.
Init ==
    /\ scenario \in Scenarios
    /\ skip = {}
    /\ tar = 1
    /\ nread = 0
    /\ tar_infos = EmptyMap
    /\ metadata = EmptyMap
    /\ seen = {}
    /\ pc = "read"
    /\ yielded = NoYield
    /\ emitted = <<>>
    /\ report = <<>>
    /\ first = NoEntry
    /\ last = NoEntry
    /\ leftover = [called |-> FALSE, keys |-> {}]
    /\ disk = DiskAtStart
    /\ NormIdle
    /\ FixIdle
    /\ TimeIdle
    /\ ProcIdle

\* Mutant: the skip set is not consulted.
SkippedHtmlOnly(filename) == EndsWith(filename, ArchiveBrowser)

\* ProcessedFileTracker.__contains__ and the HTML index test, line 160
Skipped(filename) == filename \in skip \/ EndsWith(filename, ArchiveBrowser)

\* LocalFile(...), as far as the matcher and the report read it; ok is FALSE
\* when the constructor raises (metadata_original_timestamp, line 32).
LocalFile(file, meta) ==
    [ok |-> meta.taken # "unusable",
     filename_from_archive |-> file.name,
     archive_filename |-> file.tar,
     takeout_metadata |-> meta]

\* Mutant: a payload that does not parse, or has no title, is stored with an
\* empty title instead of raising.
StoreEntryDefaultTitle(raw, n, payload) ==
    IF n.meta
    THEN [ok |-> TRUE, filename |-> n.key, files |-> tar_infos,
          metas |-> With(metadata, n.key,
                         [title |-> payload.title, taken |-> payload.taken,
                          tar_name |-> tar, metadata_filename |-> n.key])]
    ELSE [ok |-> TRUE, filename |-> n.key,
          files |-> With(tar_infos, n.key, [name |-> raw, tar |-> tar]),
          metas |-> metadata]

\* Lines 162-169: what the entry stores. [ok, filename, files, metas].
StoreEntry(raw, n, payload) ==
    IF n.meta
    THEN IF payload.kind # "ok"
         THEN [ok |-> FALSE, filename |-> n.key, files |-> tar_infos, metas |-> metadata]
         ELSE LET f == FixTruncatedName(n.key, payload.title)
              IN  IF ~f.ok
                  THEN [ok |-> FALSE, filename |-> n.key,
                        files |-> tar_infos, metas |-> metadata]
                  ELSE [ok |-> TRUE, filename |-> f.key, files |-> tar_infos,
                        metas |-> With(metadata, f.key,
                                       [title |-> payload.title,
                                        taken |-> payload.taken,
                                        tar_name |-> tar,
                                        metadata_filename |-> f.key])]
    ELSE [ok |-> TRUE, filename |-> n.key,
          files |-> With(tar_infos, n.key, [name |-> raw, tar |-> tar]),
          metas |-> metadata]

\* Mutant: a joined asset is put in front of the assets emitted so far.
ReadEntryEmitsFirst(raw, payload) ==
    /\ pc = "read"
    /\ nread < MaxEntries
    /\ nread' = nread + 1
    /\ LET n == Normalise(raw)
       IN  IF ~n.ok
           THEN /\ pc' = "failed"
                /\ last' = [name |-> raw, payload |-> NoPayload,
                            outcome |-> "failed", key |-> <<>>]
                /\ UNCHANGED <<tar_infos, metadata, yielded, emitted>>
           ELSE IF Skipped(n.key)
           THEN /\ last' = [name |-> raw, payload |-> NoPayload,
                            outcome |-> "skipped", key |-> n.key]
                /\ UNCHANGED <<pc, tar_infos, metadata, yielded, emitted>>
           ELSE LET st == StoreEntry(raw, n, payload)
                    m == MatchFiles(n.meta, st.filename, DOMAIN st.files,
                                    DOMAIN st.metas)
                    made == LocalFile(st.files[m.file], st.metas[m.meta])
                IN  /\ n.meta <=> payload # NoPayload
                    /\ IF ~st.ok
                       THEN /\ pc' = "failed"
                            /\ last' = [name |-> raw, payload |-> payload,
                                        outcome |-> "failed", key |-> n.key]
                            /\ UNCHANGED <<tar_infos, metadata, yielded, emitted>>
                       ELSE IF m.hit /\ ~made.ok
                       THEN /\ pc' = "failed"
                            /\ tar_infos' = st.files
                            /\ metadata' = st.metas
                            /\ last' = [name |-> raw, payload |-> payload,
                                        outcome |-> "failed", key |-> st.filename]
                            /\ UNCHANGED <<yielded, emitted>>
                       ELSE /\ tar_infos' = st.files
                            /\ metadata' = st.metas
                            /\ last' = [name |-> raw, payload |-> payload,
                                        outcome |-> IF m.hit THEN "matched"
                                                    ELSE "stored",
                                        key |-> st.filename]
                            /\ IF m.hit
                               THEN /\ emitted' = <<made>> \o emitted
                                    /\ yielded' =
                                           [filename |-> st.filename,
                                            name |-> st.files[m.file].name,
                                            meta |-> st.metas[m.meta].metadata_filename]
                                    /\ pc' = "yield"
                               ELSE UNCHANGED <<pc, yielded, emitted>>
    /\ first' = IF nread = 0 THEN last' ELSE first
    /\ UNCHANGED <<scenario, skip, tar, seen, report, leftover>>
    /\ UNCHANGED <<disk, purevars>>

\* One iteration of the loop over the entries, lines 158-188: up to the yield,
\* or to the end of the iteration when nothing is joined. The run fails when
\* the entry cannot be read or stored, and when the LocalFile of a joined pair
\* cannot be built (line 182), the pair then staying pending.
ReadEntry(raw, payload) ==
    /\ pc = "read"
    /\ nread < MaxEntries
    /\ nread' = nread + 1
    /\ LET n == Normalise(raw)
       IN  IF ~n.ok
           THEN /\ pc' = "failed"
                /\ last' = [name |-> raw, payload |-> NoPayload,
                            outcome |-> "failed", key |-> <<>>]
                /\ UNCHANGED <<tar_infos, metadata, yielded, emitted>>
           ELSE IF Skipped(n.key)
           THEN /\ last' = [name |-> raw, payload |-> NoPayload,
                            outcome |-> "skipped", key |-> n.key]
                /\ UNCHANGED <<pc, tar_infos, metadata, yielded, emitted>>
           ELSE LET st == StoreEntry(raw, n, payload)
                    m == MatchFiles(n.meta, st.filename, DOMAIN st.files,
                                    DOMAIN st.metas)
                    made == LocalFile(st.files[m.file], st.metas[m.meta])
                IN  /\ n.meta <=> payload # NoPayload
                    /\ IF ~st.ok
                       THEN /\ pc' = "failed"
                            /\ last' = [name |-> raw, payload |-> payload,
                                        outcome |-> "failed", key |-> n.key]
                            /\ UNCHANGED <<tar_infos, metadata, yielded, emitted>>
                       ELSE IF m.hit /\ ~made.ok
                       THEN /\ pc' = "failed"
                            /\ tar_infos' = st.files
                            /\ metadata' = st.metas
                            /\ last' = [name |-> raw, payload |-> payload,
                                        outcome |-> "failed", key |-> st.filename]
                            /\ UNCHANGED <<yielded, emitted>>
                       ELSE /\ tar_infos' = st.files
                            /\ metadata' = st.metas
                            /\ last' = [name |-> raw, payload |-> payload,
                                        outcome |-> IF m.hit THEN "matched"
                                                    ELSE "stored",
                                        key |-> st.filename]
                            /\ IF m.hit
                               THEN /\ emitted' = Append(emitted, made)
                                    /\ yielded' =
                                           [filename |-> st.filename,
                                            name |-> st.files[m.file].name,
                                            meta |-> st.metas[m.meta].metadata_filename]
                                    /\ pc' = "yield"
                               ELSE UNCHANGED <<pc, yielded, emitted>>
    /\ first' = IF nread = 0 THEN last' ELSE first
    /\ UNCHANGED <<scenario, skip, tar, seen, report, leftover>>
    /\ UNCHANGED <<disk, purevars>>

\* Mutant: the join is marked and reported but the pair stays pending.
ResumeKeepsPair ==
    /\ pc = "yield"
    /\ seen' = seen \cup {yielded.filename}
    /\ report' = Append(report,
           [call |-> "matched",
            files |-> {emitted[Len(emitted)].filename_from_archive}])
    /\ pc' = "read"
    /\ yielded' = NoYield
    /\ UNCHANGED <<scenario, skip, tar, nread, tar_infos, metadata, emitted,
                   first, last, leftover>>
    /\ UNCHANGED <<disk, purevars>>

\* The consumer asks for the next asset: lines 189-192 run.
Resume ==
    /\ pc = "yield"
    /\ IF yielded.name \notin DOMAIN tar_infos
       THEN /\ pc' = "failed"
            /\ UNCHANGED <<tar_infos, metadata, seen, report>>
       ELSE /\ tar_infos' = Without(tar_infos, yielded.name)
            /\ metadata' = Without(metadata, yielded.meta)
            /\ seen' = seen \cup {yielded.filename}
            /\ report' = Append(report,
                   [call |-> "matched",
                    files |-> {emitted[Len(emitted)].filename_from_archive}])
            /\ pc' = "read"
    /\ yielded' = NoYield
    /\ UNCHANGED <<scenario, skip, tar, nread, emitted, first, last, leftover>>
    /\ UNCHANGED <<disk, purevars>>

\* The loop over the archives moves to the next one, line 148.
NextTar ==
    /\ pc = "read"
    /\ tar < MaxTars
    /\ tar' = tar + 1
    /\ UNCHANGED <<scenario, skip, nread, tar_infos, metadata, seen, pc, yielded,
                   emitted, report, first, last, leftover>>
    /\ UNCHANGED <<disk, purevars>>

\* Report.report_hanging_metadata / report_hanging_files, called when the
\* mapping is not empty (lines 200-205).
Hanging(call, keys) ==
    IF keys = {} THEN <<>> ELSE <<[call |-> call, files |-> keys]>>

\* Mutant: the cleanup also marks the leftovers it discards as seen.
FinishMarksSeen ==
    /\ pc = "read"
    /\ leftover' = [called |-> TRUE, keys |-> DOMAIN tar_infos]
    /\ \E res \in CleanupMotionVideos(DOMAIN tar_infos, seen) :
           /\ tar_infos' = [k \in res.keys |-> tar_infos[k]]
           /\ seen' = seen \cup (DOMAIN tar_infos \ res.keys)
           /\ IF res.ok
              THEN /\ report' = report \o Hanging("hanging_metadata", DOMAIN metadata)
                                       \o Hanging("hanging_files", res.keys)
                   /\ pc' = "done"
              ELSE /\ pc' = "failed"
                   /\ UNCHANGED report
    /\ UNCHANGED <<scenario, skip, tar, nread, metadata, yielded, emitted,
                   first, last>>
    /\ UNCHANGED <<disk, purevars>>

\* All archives are exhausted, lines 197-206: cleanup, then the dangling reports.
Finish ==
    /\ pc = "read"
    /\ leftover' = [called |-> TRUE, keys |-> DOMAIN tar_infos]
    /\ \E res \in CleanupMotionVideos(DOMAIN tar_infos, seen) :
           /\ tar_infos' = [k \in res.keys |-> tar_infos[k]]
           /\ IF res.ok
              THEN /\ report' = report \o Hanging("hanging_metadata", DOMAIN metadata)
                                       \o Hanging("hanging_files", res.keys)
                   /\ pc' = "done"
              ELSE /\ pc' = "failed"
                   /\ UNCHANGED report
    /\ UNCHANGED <<scenario, skip, tar, nread, metadata, seen, yielded, emitted,
                   first, last>>
    /\ UNCHANGED <<disk, purevars>>

\* ProcessedFileTracker.read_file: when the tracker's file exists its
\* contents replace items, whatever items held; when it does not, items stay.
ReadFile ==
    /\ skip' = IF disk[scenario.filename].exists
               THEN disk[scenario.filename].names
               ELSE skip
    /\ UNCHANGED <<scenario, tar, nread, tar_infos, metadata, seen, pc, yielded,
                   emitted, report, first, last, leftover>>
    /\ UNCHANGED <<disk, purevars>>

\* ProcessedFileTracker.write_file: the names go to "uploaded.json", whatever
\* file the tracker was built for.
WriteFile ==
    /\ disk' = [disk EXCEPT ![UploadedJson] = Holding(skip)]
    /\ UNCHANGED <<scenario, skip, tar, nread, tar_infos, metadata, seen, pc,
                   yielded, emitted, report, first, last, leftover>>
    /\ UNCHANGED purevars

\* ProcessedFileTracker.add(name): the name is added, and the file is written
\* when the number of names is a multiple of a hundred.
TrackerAdd(name) ==
    /\ skip' = skip \cup {name}
    /\ disk' = IF Cardinality(skip') % 100 = 0
               THEN [disk EXCEPT ![UploadedJson] = Holding(skip')]
               ELSE disk
    /\ UNCHANGED <<scenario, tar, nread, tar_infos, metadata, seen, pc, yielded,
                   emitted, report, first, last, leftover>>
    /\ UNCHANGED purevars

\* The consumer, holding the asset just yielded, records it as uploaded
\* (upload_files, skip.add(item.filename_from_archive)).
ConsumerAdd ==
    /\ pc = "yield"
    /\ TrackerAdd(emitted[Len(emitted)].filename_from_archive)

\* The tracker is loaded when the program starts, before the first entry is
\* read (the load in the tracker's constructor, main.py line 93).
LoadTracker ==
    /\ pc = "read"
    /\ nread = 0
    /\ ReadFile

Next ==
    \/ \E raw \in scenario.names :
           \E payload \in Payloads(scenario.titles) \cup {NoPayload} :
               ReadEntry(raw, payload)
    \/ Resume
    \/ NextTar
    \/ Finish
    \/ ConsumerAdd
    \/ LoadTracker

Spec == Init /\ [][Next]_vars

(***************************************************************************)
(* The ProcessedFileTracker on its own: names are added and the file is    *)
(* read in any order.                                                      *)
(***************************************************************************)
NextTracker ==
    \/ ReadFile
    \/ \E name \in scenario.names : TrackerAdd(name)
    \/ WriteFile

SpecTracker == Init /\ [][NextTracker]_vars

(***************************************************************************)
(* The Report on its own: report_skipped, which no step of the matcher     *)
(* calls, writes one row per call for the file and reason it is handed.    *)
(***************************************************************************)
MaxRows == 2       \* rows written to the report by report_skipped

SkipReasons == {"Unsupported", "Partner Sharing"}

\* Report.report_skipped(filename, archive_filename, reason)
ReportSkipped(filename, archive_filename, reason) ==
    /\ Len(report) < MaxRows
    /\ report' = Append(report, [call |-> "skipped",
                                 files |-> {filename},
                                 archive_file |-> archive_filename,
                                 state |-> "Skipped, " \o reason])
    /\ UNCHANGED <<scenario, skip, tar, nread, tar_infos, metadata, seen, pc,
                   yielded, emitted, first, last, leftover>>
    /\ UNCHANGED <<disk, purevars>>

NextReport ==
    \E filename \in scenario.names, archive_filename \in 1..MaxTars,
       reason \in SkipReasons :
        ReportSkipped(filename, archive_filename, reason)

SpecReport == Init /\ [][NextReport]_vars

(***************************************************************************)
(* normalise_filename on its own: every raw name built from a few name     *)
(* fragments is normalised, and its key is normalised again.               *)
(***************************************************************************)
MaxTokens == 4     \* fragments in a raw name handed to normalise_filename

NameTokens == {A, DotJpg, DotJson, Num1, <<"(">>, <<")">>, <<"/">>, <<".">>}

RECURSIVE NamesUpTo(_)
NamesUpTo(n) ==
    IF n = 0
    THEN {<<>>}
    ELSE LET shorter == NamesUpTo(n - 1)
         IN  shorter \cup {p \o t : p \in shorter, t \in NameTokens}

Called(r) == [ok |-> r.ok, key |-> r.key, meta |-> r.meta, called |-> TRUE]

InitNorm ==
    /\ norm_raw \in NamesUpTo(MaxTokens)
    /\ norm_once = NotCalled
    /\ norm_twice = NotCalled
    /\ MatcherIdle
    /\ FixIdle
    /\ TimeIdle
    /\ ProcIdle

NormaliseOnce ==
    /\ ~norm_once.called
    /\ norm_once' = Called(Normalise(norm_raw))
    /\ UNCHANGED <<norm_raw, norm_twice>>
    /\ UNCHANGED <<mvars, fvars, tvars, pvars>>

NormaliseTwice ==
    /\ norm_once.called
    /\ norm_once.ok
    /\ ~norm_twice.called
    /\ norm_twice' = Called(Normalise(norm_once.key))
    /\ UNCHANGED <<norm_raw, norm_once>>
    /\ UNCHANGED <<mvars, fvars, tvars, pvars>>

NextNorm == NormaliseOnce \/ NormaliseTwice

SpecNorm == InitNorm /\ [][NextNorm]_vars

(***************************************************************************)
(* fix_truncated_name on its own: keys and titles whose lengths lie around *)
(* the truncation threshold, under directories short and long.             *)
(***************************************************************************)
MaxSlack == 2      \* how far the lengths range around the threshold

Rep(c, n) == [i \in 1..n |-> c]

\* MAX_NAME_LENGTH - len(".json")
Threshold == MAX_NAME_LENGTH - Len(DotJson)

AroundThreshold == (Threshold - MaxSlack)..(Threshold + MaxSlack)

\* Directories: none, a short one, and ones about as long as the threshold
FixDirs == {<<>>, D} \cup {Rep("d", n) \o <<"/">> : n \in AroundThreshold}

\* Stems of the key's last component: short ones, and ones that bring the
\* key near the threshold under a short directory
FixStemLens == {1, Len(D) + 1} \cup {n - Len(D) - Len(DotJpg) : n \in AroundThreshold}
                               \cup AroundThreshold

FixKeys ==
    {dir \o Rep("x", n) \o mark \o ext :
         dir \in FixDirs, n \in FixStemLens, mark \in {<<>>, Num1},
         ext \in {<<>>, DotJpg}}

\* Titles: a stem ending in the given last character, and an extension
FixTitles ==
    {Rep("x", n - 1) \o <<c>> \o ext :
         n \in FixStemLens, c \in {"x", "y"}, ext \in {<<>>, DotJpg}}

InitFix ==
    /\ fix_key \in FixKeys
    /\ fix_title \in FixTitles
    /\ fix_out = NotFixed
    /\ MatcherIdle
    /\ NormIdle
    /\ TimeIdle
    /\ ProcIdle

FixName ==
    /\ ~fix_out.called
    /\ LET r == FixTruncatedName(fix_key, fix_title)
       IN  fix_out' = [ok |-> r.ok, key |-> r.key, called |-> TRUE]
    /\ UNCHANGED <<fix_key, fix_title>>
    /\ UNCHANGED <<mvars, nvars, tvars, pvars>>

NextFix == FixName

SpecFix == InitFix /\ [][NextFix]_vars

(***************************************************************************)
(* check_timestamp_exif (src/immich_takeout/process_files.py) on its own.  *)
(* Times are in seconds, counted from the instant at which the named zone  *)
(* of the model changes its offset; offsets are in minutes.                *)
(***************************************************************************)
Naive(wall) == [kind |-> "naive", wall |-> wall, off |-> 0, tz |-> "none"]
Aware(wall, off, tz) == [kind |-> "aware", wall |-> wall, off |-> off, tz |-> tz]

\* The instant an aware datetime denotes, in seconds
Instant(t) == t.wall - t.off * 60

Abs(n) == IF n < 0 THEN 0 - n ELSE n

\* Mutant: two aware datetimes are compared by their wall-clock readings.
TimeEqWallClock(a, b) ==
    IF a.kind # b.kind THEN FALSE
    ELSE IF a.kind = "none" THEN TRUE
    ELSE a.wall = b.wall

\* datetime.__eq__: None equals None only, a naive and an aware datetime are
\* never equal, two aware ones are equal when they denote the same instant.
TimeEq(a, b) ==
    IF a.kind # b.kind THEN FALSE
    ELSE IF a.kind = "none" THEN TRUE
    ELSE IF a.kind = "naive" THEN a.wall = b.wall
    ELSE Instant(a) = Instant(b)

\* pytz.utc.localize(naive)
UtcLocalize(t) == Aware(t.wall, 0, "UTC")

\* Mutant: offsets of half a day and more are refused.
FixedOffsetHalfDay(minutes) ==
    [ok |-> Abs(minutes) < 720,
     off |-> minutes,
     tz |-> IF minutes = 0 THEN "UTC" ELSE "fixed"]

\* pytz.FixedOffset(minutes): the UTC singleton for 0; ok is FALSE when pytz
\* raises ("absolute offset is too large").
FixedOffset(minutes) ==
    [ok |-> Abs(minutes) < 1440,
     off |-> minutes,
     tz |-> IF minutes = 0 THEN "UTC" ELSE "fixed"]

\* Mutant: the wall-clock reading is kept and the offset attached to it.
AsTimezoneKeepWall(t, off, tz) == Aware(t.wall, off, tz)

\* aware.astimezone(tz) for a tzinfo of the fixed offset off
AsTimezone(t, off, tz) == Aware(Instant(t) + off * 60, off, tz)

\* TZ_GUESSER.tzNameAt(lat, lon): the one inhabited place of the model, and
\* nothing for any other coordinates (the open sea).
Sydney == <<-33, 151>>
Ocean == <<0, 0>>
TzNameAt(gps) == IF gps = Sydney THEN "Australia/Sydney" ELSE "none"

\* The offset of the named zone at an instant: daylight-saving time before
\* the change, standard time from it on.
ZoneOffset(name, instant) == IF instant < 0 THEN 660 ELSE 600

\* find_tz(exif_gps): the zone name, or "none" for None
FindTz(gps) == TzNameAt(gps)

\* aware.astimezone(pytz.timezone(name))
AsNamedZone(t, name) ==
    AsTimezone(t, ZoneOffset(name, Instant(t)), name)

\* Mutant: the coordinates are ignored.
GeoFallbackUtcOnly(gps, meta) == [ok |-> TRUE, flag |-> TRUE, time |-> meta]

\* Lines 95-100 and 112-116: the zone of the coordinates, else the sidecar
\* time as it is. Raises when astimezone is called on None.
GeoFallback(gps, meta) ==
    IF gps # NoGps /\ FindTz(gps) # "none"
    THEN IF meta.kind = "none"
         THEN [ok |-> FALSE, flag |-> FALSE, time |-> NoTime]
         ELSE [ok |-> TRUE, flag |-> TRUE, time |-> AsNamedZone(meta, FindTz(gps))]
    ELSE [ok |-> TRUE, flag |-> TRUE, time |-> meta]

\* Mutant: the offset is rounded towards zero instead of down.
CalculateTimezoneTruncating(exif, meta) ==
    LET diff == Instant(meta) - Instant(exif)
        mins == IF diff < 0 THEN 0 - ((0 - diff) \div 60) ELSE diff \div 60
        guess_tz == FixedOffset(((exif.off * 60) \div 60) - mins)
    IN  [ok |-> guess_tz.ok,
         time |-> Aware(exif.wall, guess_tz.off, guess_tz.tz)]

\* calculate_timezone(exif_time, metadata_time), exif_time being aware
CalculateTimezone(exif, meta) ==
    LET guess_tz == FixedOffset(((exif.off * 60) \div 60)
                                    - ((Instant(meta) - Instant(exif)) \div 60))
    IN  [ok |-> guess_tz.ok,
         time |-> Aware(exif.wall, guess_tz.off, guess_tz.tz)]

TwelveHours == 12 * 3600

\* check_timestamp_exif(exif_time, exif_gps, metadata_time): [ok, flag, time];
\* ok is FALSE when the call raises.
CheckTimestampExif(exif, gps, meta) ==
    IF ~TimeEq(exif, meta)
    THEN IF exif.kind = "none"
         THEN GeoFallback(gps, meta)
         ELSE LET has_tz == exif.kind = "aware"
              IN  IF ~has_tz /\ meta.kind = "none"
                  THEN [ok |-> FALSE, flag |-> FALSE, time |-> NoTime]
                  ELSE IF ~has_tz
                          /\ Abs(Instant(UtcLocalize(exif)) - Instant(meta)) <= TwelveHours
                  THEN LET c == CalculateTimezone(UtcLocalize(exif), meta)
                       IN  [ok |-> c.ok, flag |-> TRUE, time |-> c.time]
                  ELSE IF has_tz
                  THEN IF meta.kind = "none"
                       THEN [ok |-> FALSE, flag |-> FALSE, time |-> NoTime]
                       ELSE [ok |-> TRUE, flag |-> TRUE,
                             time |-> AsTimezone(meta, exif.off, exif.tz)]
                  ELSE GeoFallback(gps, meta)
    ELSE [ok |-> TRUE, flag |-> FALSE, time |-> exif]

MaxSkew == 2       \* seconds by which a gap is off its round value

Hour == 3600

\* Gaps between the embedded reading and the sidecar time, in seconds
Gaps == {0, 4 * Hour, TwelveHours, 44 * Hour}

Deltas == {sign * gap + skew : sign \in {-1, 1}, gap \in Gaps, skew \in (0 - MaxSkew)..MaxSkew}

\* Embedded offsets, in minutes
Offsets == {660, -240, 330, 0}

\* Sidecar times: UTC, before and after the zone's change of offset
SidecarTimes == {Aware(0 - Hour, 0, "UTC"), Aware(Hour, 0, "UTC")}

ExifTimes(meta) ==
    {NoTime}
        \cup {Naive(Instant(meta) + d) : d \in Deltas}
        \cup {Aware(Instant(meta) + off * 60 + d, off, IF off = 0 THEN "UTC" ELSE "fixed") :
                  d \in Deltas, off \in Offsets}

InitTime ==
    /\ metadata_time \in SidecarTimes \cup {NoTime}
    /\ exif_time \in ExifTimes(IF metadata_time = NoTime THEN Aware(Hour, 0, "UTC")
                               ELSE metadata_time)
    /\ exif_gps \in {NoGps, Sydney, Ocean}
    /\ ts_out = NotReconciled
    /\ MatcherIdle
    /\ NormIdle
    /\ FixIdle
    /\ ProcIdle

Reconcile ==
    /\ ~ts_out.called
    /\ LET r == CheckTimestampExif(exif_time, exif_gps, metadata_time)
       IN  ts_out' = [ok |-> r.ok, flag |-> r.flag, time |-> r.time, called |-> TRUE]
    /\ UNCHANGED <<exif_time, exif_gps, metadata_time>>
    /\ UNCHANGED <<mvars, nvars, fvars, pvars>>

NextTime == Reconcile

SpecTime == InitTime /\ [][NextTime]_vars

(***************************************************************************)
(* process_files (src/immich_takeout/process_files.py): each item is       *)
(* filtered, the time and offset embedded in a JPEG are decoded and         *)
(* reconciled with the sidecar time, and the item is yielded.               *)
(***************************************************************************)
Digits == <<"0", "1", "2", "3", "4", "5", "6", "7", "8", "9">>

IsDigit(c) == \E d \in 1..Len(Digits) : Digits[d] = c

DigitValue(c) == (CHOOSE d \in 1..Len(Digits) : Digits[d] = c) - 1

\* int(s) for a text of two decimal digits
IntOfTwoDigits(s) == DigitValue(s[1]) * 10 + DigitValue(s[2])

NoMatchOffset == [ok |-> FALSE, sign |-> <<>>, hours |-> <<>>, minutes |-> <<>>]

\* re.match(r"([+\-]?)(\d{2}):(\d{2})", offset): the three groups, or no match
MatchOffset(offset) ==
    LET signed == Len(offset) > 0 /\ offset[1] \in {"+", "-"}
        body == IF signed THEN Tail(offset) ELSE offset
    IN  IF /\ Len(body) >= 5
           /\ IsDigit(body[1])
           /\ IsDigit(body[2])
           /\ body[3] = ":"
           /\ IsDigit(body[4])
           /\ IsDigit(body[5])
        THEN [ok |-> TRUE,
              sign |-> IF signed THEN <<offset[1]>> ELSE <<>>,
              hours |-> SubSeq(body, 1, 2),
              minutes |-> SubSeq(body, 4, 5)]
        ELSE NoMatchOffset

\* parse_timezone(offset): [ok, off, tz]; ok is FALSE when the call raises
\* (no match, or an offset pytz refuses).
ParseTimezone(offset) ==
    LET m == MatchOffset(offset)
        sign == IF m.sign = <<"-">> THEN -1 ELSE 1
    IN  IF ~m.ok
        THEN [ok |-> FALSE, off |-> 0, tz |-> "none"]
        ELSE FixedOffset(sign * (IntOfTwoDigits(m.hours) * 60)
                             + IntOfTwoDigits(m.minutes))

\* The EXIF tags process_files reads. DateTimeOriginal is absent, a text that
\* strptime refuses, or a text that reads as the wall-clock value wall.
NoDate == [kind |-> "absent", wall |-> 0]
BadDate == [kind |-> "malformed", wall |-> 0]
GoodDate(wall) == [kind |-> "ok", wall |-> wall]
NoOffsetTag == [present |-> FALSE, text |-> <<>>]
OffsetTag(text) == [present |-> TRUE, text |-> text]
NoGpsTag == [kind |-> "absent", at |-> NoGps]
ZeroGpsTag == [kind |-> "zero_division", at |-> NoGps]
GpsTag(at) == [kind |-> "ok", at |-> at]
NoExif == [loads |-> FALSE, dto |-> NoDate, oto |-> NoOffsetTag, gps |-> NoGpsTag]

\* extract_exif_date(exif_data): [ok, time]; ok is FALSE when the call raises
ExtractExifDate(exif) ==
    IF exif.dto.kind # "ok"
    THEN [ok |-> TRUE, time |-> NoTime]
    ELSE IF exif.oto.present
    THEN LET tz == ParseTimezone(exif.oto.text)
         IN  IF tz.ok
             THEN [ok |-> TRUE, time |-> Aware(exif.dto.wall, tz.off, tz.tz)]
             ELSE [ok |-> FALSE, time |-> NoTime]
    ELSE [ok |-> TRUE, time |-> Naive(exif.dto.wall)]

\* extract_exif_gps(exif_data)
ExtractExifGps(exif) == IF exif.gps.kind = "ok" THEN exif.gps.at ELSE NoGps

\* LocalFile.__init__, the fields process_files reads and writes
NewLocalFile(item) ==
    [name |-> item.name,
     original_time |-> IF item.metadata_time # NoTime THEN item.metadata_time
                       ELSE item.last_modified,
     gps |-> NoGps,
     exif_original_time |-> NoTime,
     timestamp_differs |-> FALSE]

\* LocalFile.file_extension, lower-cased
FileExtension(item) == Lower(SplitExt(item.name)[2])

\* One iteration of the loop of process_files, lines 25-68: [outcome, file],
\* outcome being "partner" or "unsupported" (reported, not yielded), "yield",
\* or "raise" when an exception leaves the generator.
ProcessFile(item) ==
    LET file == NewLocalFile(item)
        meta == item.metadata_time
    IN  IF item.partner
        THEN [outcome |-> "partner", file |-> file]
        ELSE IF FileExtension(item) \notin {<<".", "j", "p", "e", "g">>, DotJpg}
        THEN LET f == [file EXCEPT !.timestamp_differs = ~TimeEq(meta, item.last_modified)]
             IN  IF FileExtension(item) \in {<<".", "v", "o", "b">>, <<".", "t", "h", "m">>}
                 THEN [outcome |-> "unsupported", file |-> f]
                 ELSE IF meta = NoTime
                 THEN [outcome |-> "raise", file |-> f]
                 ELSE [outcome |-> "yield", file |-> f]
        ELSE IF ~item.exif.loads
        THEN [outcome |-> "yield", file |-> file]
        ELSE LET gps == IF item.metadata_gps # NoGps THEN item.metadata_gps
                        ELSE ExtractExifGps(item.exif)
                 d == ExtractExifDate(item.exif)
                 c == CheckTimestampExif(d.time, gps, meta)
             IN  IF ~d.ok
                 THEN [outcome |-> "raise", file |-> [file EXCEPT !.gps = gps]]
                 ELSE IF ~c.ok
                 THEN [outcome |-> "raise",
                       file |-> [file EXCEPT !.gps = gps, !.exif_original_time = d.time]]
                 ELSE IF c.time = NoTime
                 THEN [outcome |-> "raise",
                       file |-> [name |-> item.name,
                                 original_time |-> c.time,
                                 gps |-> gps,
                                 exif_original_time |-> d.time,
                                 timestamp_differs |-> c.flag]]
                 ELSE [outcome |-> "yield",
                       file |-> [name |-> item.name,
                                 original_time |-> c.time,
                                 gps |-> gps,
                                 exif_original_time |-> d.time,
                                 timestamp_differs |-> c.flag]]

MaxItems == 2      \* items handed to process_files in one run

\* Offset texts: every sign with a few hours and minutes, and the blank text
\* EXIF prescribes for an unknown offset
OffsetSigns == {<<"+">>, <<"-">>, <<>>}
OffsetHours == {<<"0", "0">>, <<"0", "5">>, <<"1", "1">>, <<"2", "4">>}
OffsetMinutes == {<<"0", "0">>, <<"3", "0">>}
OffsetTexts ==
    {s \o h \o <<":">> \o m : s \in OffsetSigns, h \in OffsetHours, m \in OffsetMinutes}
        \cup {<<" ", " ", " ", ":", " ", " ">>}

LastModified == Aware(Hour, 0, "UTC")

\* Embedded wall-clock readings around a sidecar instant
DateTags(instant) ==
    {NoDate, BadDate}
        \cup {GoodDate(instant + d) : d \in {0, 11 * Hour, 0 - 330 * 60}}

\* A JPEG whose EXIF block loads
JpegItems ==
    {[name |-> <<"a", ".", "J", "P", "G">>,
      partner |-> FALSE,
      metadata_time |-> meta,
      metadata_gps |-> mgps,
      last_modified |-> LastModified,
      exif |-> [loads |-> TRUE, dto |-> dto, oto |-> oto, gps |-> gps]] :
        meta \in SidecarTimes \cup {NoTime},
        mgps \in {NoGps, Sydney},
        dto \in DateTags(Hour) \cup DateTags(0 - Hour),
        oto \in {NoOffsetTag} \cup {OffsetTag(t) : t \in OffsetTexts},
        gps \in {NoGpsTag, ZeroGpsTag, GpsTag(Sydney)}}

\* Any other item: a JPEG whose EXIF block does not load, other media, and
\* items shared by a partner
OtherItems ==
    {[name |-> name,
      partner |-> partner,
      metadata_time |-> meta,
      metadata_gps |-> mgps,
      last_modified |-> LastModified,
      exif |-> NoExif] :
        name \in {<<"a", ".", "J", "P", "G">>, <<"a", ".", "p", "n", "g">>,
                  <<"a", ".", "v", "o", "b">>},
        partner \in BOOLEAN,
        meta \in SidecarTimes \cup {NoTime},
        mgps \in {NoGps, Sydney}}

\* The item that follows the first one
PlainItem ==
    [name |-> <<"a", ".", "p", "n", "g">>,
     partner |-> FALSE,
     metadata_time |-> Aware(Hour, 0, "UTC"),
     metadata_gps |-> NoGps,
     last_modified |-> LastModified,
     exif |-> NoExif]

InitProc ==
    /\ \E item \in JpegItems \cup OtherItems :
           items = <<item>> \o [i \in 1..(MaxItems - 1) |-> PlainItem]
    /\ item_no = 0
    /\ proc_pc = "run"
    /\ downstream = <<>>
    /\ proc_report = <<>>
    /\ MatcherIdle
    /\ NormIdle
    /\ FixIdle
    /\ TimeIdle

\* process_files takes the next item and runs one iteration of its loop.
ProcessItem ==
    /\ proc_pc = "run"
    /\ item_no < Len(items)
    /\ item_no' = item_no + 1
    /\ LET r == ProcessFile(items[item_no + 1])
       IN  /\ proc_pc' = IF r.outcome = "raise" THEN "failed" ELSE "run"
           /\ downstream' = IF r.outcome = "yield" THEN Append(downstream, r.file)
                            ELSE downstream
           /\ proc_report' = IF r.outcome \in {"partner", "unsupported"}
                             THEN Append(proc_report,
                                         [call |-> r.outcome, file |-> r.file.name])
                             ELSE proc_report
    /\ UNCHANGED items
    /\ UNCHANGED <<mvars, nvars, fvars, tvars>>

\* The items are exhausted: the generator returns.
EndOfItems ==
    /\ proc_pc = "run"
    /\ item_no = Len(items)
    /\ proc_pc' = "done"
    /\ UNCHANGED <<items, item_no, downstream, proc_report>>
    /\ UNCHANGED <<mvars, nvars, fvars, tvars>>

NextProc == ProcessItem \/ EndOfItems

SpecProc == InitProc /\ [][NextProc]_vars

(***************************************************************************)
(* Properties                                                              *)
(***************************************************************************)

\* The canonical key of an emitted asset: the key of its media entry's name.
AssetKey(asset) == Normalise(asset.filename_from_archive).key

\* A media key and a sidecar key of one logical asset: equal, or the sidecar
\* key is the media key without its extension.
SameAsset(media_key, sidecar_key) ==
    \/ media_key = sidecar_key
    \/ /\ SplitExt(media_key)[2] # <<>>
       /\ SplitExt(media_key)[1] = sidecar_key

IsMediaEntry(e) == e.outcome \in {"stored", "matched"} /\ e.payload = NoPayload
IsSidecarEntry(e) == e.outcome \in {"stored", "matched"} /\ e.payload.kind = "ok"

\* C1: when the stream is exactly a media entry and the sidecar entry of the
\* same logical asset (equal keys, or a sidecar key lacking the extension of
\* the media key), in either order, exactly one asset has been emitted once
\* both are read, and it carries the media entry's canonical key.
C1_BothOrdersEmitOnce ==
    \A media \in {first, last} : \A sidecar \in {first, last} :
        (/\ nread = 2
         /\ media # sidecar
         /\ IsMediaEntry(media)
         /\ IsSidecarEntry(sidecar)
         /\ SameAsset(media.key, sidecar.key))
        => /\ Len(emitted) = 1
           /\ AssetKey(emitted[1]) = media.key

\* Entries reported as dangling, over the hanging_metadata and hanging_files calls
RECURSIVE DanglingCount(_)
DanglingCount(calls) ==
    IF calls = <<>>
    THEN 0
    ELSE (IF Head(calls).call \in {"hanging_metadata", "hanging_files"}
          THEN Cardinality(Head(calls).files) ELSE 0)
         + DanglingCount(Tail(calls))

OneSidedRun == pc = "done" /\ nread = 1 /\ last.outcome = "stored"

\* C2 as stated: a run that read one stored entry only (a media entry without
\* sidecar, or a sidecar without media entry) ends with no asset emitted and
\* exactly one dangling entry reported.
C2_OneSideOneDangling ==
    OneSidedRun => emitted = <<>> /\ DanglingCount(report) = 1

\* C2, amended: such a run ends with no asset emitted; a lone sidecar is
\* reported as the one dangling metadata key, a lone media entry as the one
\* dangling file key, unless its stem ends in "-edited": then the cleanup
\* discards it and nothing is reported.
C2_OneSideDanglingUnlessEdited ==
    OneSidedRun =>
        /\ emitted = <<>>
        /\ report =
               IF last.payload # NoPayload
               THEN <<[call |-> "hanging_metadata", files |-> {last.key}]>>
               ELSE IF EndsWith(SplitExt(last.key)[1], Edited)
               THEN <<>>
               ELSE <<[call |-> "hanging_files", files |-> {last.key}]>>

C2_Witness ==
    /\ OneSidedRun
    /\ last.payload = NoPayload
    /\ EndsWith(SplitExt(last.key)[1], Edited)
    /\ report = <<>>

\* C3: a step that reads an entry whose normalised key is in the skip set, or
\* ends in the HTML index name, changes neither pending map, joins nothing,
\* emits nothing and reports nothing.
C3_SkippedEntryDiscarded ==
    [][(/\ nread' = nread + 1
        /\ Normalise(last'.name).ok
        /\ \/ Normalise(last'.name).key \in skip
           \/ EndsWith(Normalise(last'.name).key, ArchiveBrowser))
       => UNCHANGED <<tar_infos, metadata, seen, pc, yielded, emitted, report>>]_vars

C3_Witness ==
    /\ last.outcome = "skipped"
    /\ last.key \in skip
    /\ DOMAIN metadata # {}
    /\ pc = "read"

\* C4: no two emitted assets carry the same canonical key.
C4_EmittedOncePerKey ==
    \A i \in 1..Len(emitted) : \A j \in 1..Len(emitted) :
        i # j => AssetKey(emitted[i]) # AssetKey(emitted[j])

\* C5: a step that stores a sidecar record under a key that already has a
\* pending or resolved record surfaces a warning to the report, and the run
\* does not fail.
C5_DuplicateSidecarWarns ==
    [][(/\ nread' = nread + 1
        /\ IsSidecarEntry(last')
        /\ last'.key \in DOMAIN metadata \cup seen)
       => /\ pc' # "failed"
          /\ \E i \in (Len(report) + 1)..Len(report') : report'[i].call = "warning"]_vars

\* C6: a step that parses a sidecar payload that is malformed, or has no
\* title, fails the run: nothing is stored for the entry, nothing is emitted
\* for it, and a failed run emits nothing later.
C6_MalformedSidecarFatal ==
    /\ [][(/\ nread' = nread + 1
           /\ last'.payload.kind \in {"malformed", "notitle"})
          => /\ pc' = "failed"
             /\ metadata' = metadata
             /\ emitted' = emitted]_vars
    /\ [][pc = "failed" => pc' = "failed" /\ emitted' = emitted]_vars

C6_Witness ==
    /\ pc = "failed"
    /\ last.payload.kind = "malformed"
    /\ DOMAIN tar_infos # {}
    /\ emitted # <<>>

\* The stems the motion-photo properties are stated for
ClaimStems == {A, A \o Edited, D \o A \o Edited}

Discarded(k) == k \in leftover.keys /\ k \notin DOMAIN tar_infos

\* The still-image sibling of stem.MP was matched, or the stem ends in the
\* "-edited" marker, which discards a leftover whatever was matched
PlainRule(stem) == stem \o DotMP \o DotJpg \in seen \/ EndsWith(stem, Edited)

\* The still-image sibling of stem(1).MP was matched
NumberedRule(stem) == stem \o DotMP \o Num1 \o DotJpg \in seen

C7_HoldsWhenCleanupCompletes ==
    leftover.called =>
        \A stem \in ClaimStems :
            /\ Discarded(stem \o DotMP) => PlainRule(stem)
            /\ Discarded(stem \o Num1 \o DotMP) => NumberedRule(stem)
            /\ pc = "done" =>
                   /\ (stem \o DotMP \in leftover.keys /\ PlainRule(stem))
                          => Discarded(stem \o DotMP)
                   /\ (stem \o Num1 \o DotMP \in leftover.keys /\ NumberedRule(stem))
                          => Discarded(stem \o Num1 \o DotMP)

\* A cleanup that ran to its end, with a numbered leftover discarded for its
\* matched still and an unnumbered one kept
C7_CleanupDiscardedNumbered ==
    /\ pc = "done"
    /\ Discarded(A \o Num1 \o DotMP)
    /\ A \o DotMP \o Num1 \o DotJpg \in seen
    /\ A \o DotMP \in DOMAIN tar_infos

\* The cleanup failed on one leftover and left another, which it should
\* have discarded, in the pending files
C7_FailedCleanupKeepsLeftover ==
    /\ pc = "failed"
    /\ leftover.called
    /\ Discarded(A \o Edited \o DotMP)
    /\ D \o A \o Edited \o DotMP \in DOMAIN tar_infos

\* C8: once the cleanup was called, no leftover whose stem ends in "-edited"
\* is left in the pending files.
C8_EditedAlwaysDiscarded ==
    leftover.called =>
        \A k \in leftover.keys :
            EndsWith(SplitExt(k)[1], Edited) => k \notin DOMAIN tar_infos

\* C9: the step that runs the cleanup leaves the pending metadata and the
\* matched keys unchanged, emits nothing, and only removes entries from the
\* pending files, the surviving ones unchanged.
C9_CleanupOnlyShrinksFiles ==
    [][(~leftover.called /\ leftover'.called)
       => /\ metadata' = metadata
          /\ seen' = seen
          /\ emitted' = emitted
          /\ DOMAIN tar_infos' \subseteq DOMAIN tar_infos
          /\ \A k \in DOMAIN tar_infos' : tar_infos'[k] = tar_infos[k]]_vars

C9_Witness ==
    /\ leftover.called
    /\ DOMAIN tar_infos # leftover.keys
    /\ DOMAIN metadata # {}
    /\ seen # {}

\* C10 as stated: normalising the key of any raw name returns that key
\* unchanged, with is-metadata false.
C10_NormaliseIdempotent ==
    norm_twice.called =>
        norm_twice = [ok |-> TRUE, key |-> norm_once.key, meta |-> FALSE,
                      called |-> TRUE]

Count(s, c) == Cardinality({i \in 1..Len(s) : s[i] = c})

\* C10, amended: the same, for the raw names that hold at most one "(" and at
\* most one ")" and whose key does not end in ".json".
C10_NormaliseIdempotentOnPlainNames ==
    (/\ norm_twice.called
     /\ Count(norm_raw, "(") <= 1
     /\ Count(norm_raw, ")") <= 1
     /\ ~EndsWith(norm_once.key, DotJson))
    => norm_twice = [ok |-> TRUE, key |-> norm_once.key, meta |-> FALSE,
                     called |-> TRUE]

C10_Witness ==
    /\ norm_twice.called
    /\ norm_raw = A \o DotJpg \o Num1 \o DotJson
    /\ norm_once.key = A \o Num1 \o DotJpg
    /\ norm_once.meta
    /\ norm_twice.key = norm_once.key

\* A name split as os.path.splitext splits it, the extension holding no
\* parenthesis and not being the sidecar suffix.
IsStemExt(stem, ext) ==
    /\ SplitExt(stem \o ext) = <<stem, ext>>
    /\ ext # DotJson
    /\ \A i \in 1..Len(ext) : ext[i] \notin {"(", ")"}

\* The <<stem, ext>> for which raw is stem(1)ext, with suffix appended
MarkerBeforeExt(raw, suffix) ==
    IF ~EndsWith(raw, suffix)
    THEN {}
    ELSE LET body == SubSeq(raw, 1, Len(raw) - Len(suffix))
         IN  {<<SubSeq(body, 1, i - 1), SubSeq(body, i + Len(Num1), Len(body))>> :
                  i \in {j \in 1..(Len(body) - Len(Num1) + 1) :
                             SubSeq(body, j, j + Len(Num1) - 1) = Num1}}

\* The <<stem, ext>> for which raw is stem ext(1).json
MarkerAfterExt(raw) ==
    IF ~EndsWith(raw, Num1 \o DotJson)
    THEN {}
    ELSE {SplitExt(SubSeq(raw, 1, Len(raw) - Len(Num1) - Len(DotJson)))}

\* C11: for every stem and extension (as os.path.splitext splits a name, the
\* extension free of parentheses), normalise_filename maps the sidecar
\* names stem(1)ext.json and stem ext(1).json to the key stem(1)ext with
\* is-metadata true, and the media name stem(1)ext to the same key with
\* is-metadata false.
C11_NumberedStylesSameKey ==
    norm_once.called =>
        /\ \A p \in MarkerBeforeExt(norm_raw, DotJson) \cup MarkerAfterExt(norm_raw) :
               IsStemExt(p[1], p[2]) =>
                   norm_once = [ok |-> TRUE, key |-> p[1] \o Num1 \o p[2],
                                meta |-> TRUE, called |-> TRUE]
        /\ \A p \in MarkerBeforeExt(norm_raw, <<>>) :
               IsStemExt(p[1], p[2]) =>
                   norm_once = [ok |-> TRUE, key |-> p[1] \o Num1 \o p[2],
                                meta |-> FALSE, called |-> TRUE]

C11_Witness ==
    /\ norm_once.called
    /\ ~norm_twice.called
    /\ <<A, DotJpg>> \in MarkerAfterExt(norm_raw)
    /\ norm_once.key = A \o Num1 \o DotJpg
    /\ norm_once.meta

\* The consequence for the join: an asset emitted for a numbered media name
\* carries the sidecar record stored under that very key, and so does one
\* emitted for the un-numbered original beside it.
C11_NumberedJoinsOwnSidecar ==
    \A i \in 1..Len(emitted) :
        LET name == emitted[i].filename_from_archive
        IN  (\E p \in MarkerBeforeExt(name, <<>>) :
                 IsStemExt(p[1], p[2]) /\ p[2] # <<>>)
            => emitted[i].takeout_metadata.metadata_filename = name

\* C12: fix_truncated_name returns the key unchanged whenever the key's
\* basename equals the title, whatever the key's length, and whenever the key
\* is shorter than MAX_NAME_LENGTH - len(".json") = 85 characters.
C12_NoopOnMatchingOrShort ==
    (/\ fix_out.called
     /\ \/ Basename(fix_key) = fix_title
        \/ Len(fix_key) < MAX_NAME_LENGTH - Len(DotJson))
    => fix_out = [ok |-> TRUE, key |-> fix_key, called |-> TRUE]

C12_Witness ==
    /\ fix_out.called
    /\ Basename(fix_key) = fix_title
    /\ Len(fix_key) > MAX_NAME_LENGTH
    /\ fix_out.key = fix_key

\* The first n characters of s; none when n is not positive
Take(s, n) == SubSeq(s, 1, IF n < 0 THEN 0 ELSE IF n < Len(s) THEN n ELSE Len(s))

\* The key's directory with its separator, and the directory's length
KeyDir(key) == SubSeq(key, 1, RFind(key, "/"))
KeyDirLen(key) == IF RFind(key, "/") = 0 THEN 0 ELSE RFind(key, "/") - 1

\* The numbering marker of the key's last component, if it has one
KeyMarker(key) == IF Contains(Basename(key), Num1) THEN Num1 ELSE <<>>

\* C13: when the key's basename differs from the title and the key's length
\* is at or above the threshold, fix_truncated_name returns the key's
\* directory, then the title's stem truncated to
\* (90 - directory length - extension length - 1) characters, then the
\* numbering marker of the key if it has one, then the title's extension.
C13_RebuiltFromTitle ==
    (/\ fix_out.called
     /\ Basename(fix_key) # fix_title
     /\ Len(fix_key) >= MAX_NAME_LENGTH - Len(DotJson))
    => LET stem == SplitExt(fix_title)[1]
           ext == SplitExt(fix_title)[2]
           budget == MAX_NAME_LENGTH - KeyDirLen(fix_key) - Len(ext) - 1
       IN  fix_out = [ok |-> TRUE,
                      key |-> KeyDir(fix_key) \o Take(stem, budget)
                                  \o KeyMarker(fix_key) \o ext,
                      called |-> TRUE]

\* The same, for the keys whose directory leaves a budget that is not negative
C13_RebuiltWithinBudget ==
    (/\ fix_out.called
     /\ Basename(fix_key) # fix_title
     /\ Len(fix_key) >= MAX_NAME_LENGTH - Len(DotJson)
     /\ MAX_NAME_LENGTH - KeyDirLen(fix_key) - Len(SplitExt(fix_title)[2]) - 1 >= 0)
    => LET stem == SplitExt(fix_title)[1]
           ext == SplitExt(fix_title)[2]
           budget == MAX_NAME_LENGTH - KeyDirLen(fix_key) - Len(ext) - 1
       IN  fix_out = [ok |-> TRUE,
                      key |-> KeyDir(fix_key) \o Take(stem, budget)
                                  \o KeyMarker(fix_key) \o ext,
                      called |-> TRUE]

\* The result of a call that returned the flag and the time given
Returned(flag, time) == [ok |-> TRUE, flag |-> flag, time |-> time, called |-> TRUE]

\* The gap between the embedded reading taken as UTC and the sidecar time
NaiveGap == Abs(exif_time.wall - Instant(metadata_time))

HasSidecarTime == metadata_time.kind = "aware"

\* C14: when the embedded time carries an offset and denotes the same instant
\* as the sidecar time, check_timestamp_exif returns not corrected and the
\* embedded time unchanged.
C14_SameInstantNotCorrected ==
    (/\ ts_out.called
     /\ HasSidecarTime
     /\ exif_time.kind = "aware"
     /\ Instant(exif_time) = Instant(metadata_time))
    => ts_out = Returned(FALSE, exif_time)

C14_Witness ==
    /\ ts_out.called
    /\ HasSidecarTime
    /\ exif_time.kind = "aware"
    /\ exif_time.off = 660
    /\ Instant(exif_time) = Instant(metadata_time)
    /\ ts_out = Returned(FALSE, exif_time)

\* The sidecar instant read in the zone the coordinates resolve to, or the
\* sidecar time itself when there are no coordinates or they resolve to nothing
SidecarInGeoZone ==
    IF exif_gps # NoGps /\ TzNameAt(exif_gps) # "none"
    THEN LET off == ZoneOffset(TzNameAt(exif_gps), Instant(metadata_time))
         IN  Aware(Instant(metadata_time) + off * 60, off, TzNameAt(exif_gps))
    ELSE metadata_time

\* C15: when no embedded time is present, or the embedded time has no offset
\* and differs from the sidecar time by more than 12 hours, the result is
\* flagged corrected and is the sidecar instant in the zone the coordinates
\* resolve to, or the sidecar time in UTC without coordinates or zone.
C15_GeoFallback ==
    (/\ ts_out.called
     /\ HasSidecarTime
     /\ \/ exif_time.kind = "none"
        \/ exif_time.kind = "naive" /\ NaiveGap > TwelveHours)
    => ts_out = Returned(TRUE, SidecarInGeoZone)

C15_Witness ==
    /\ ts_out.called
    /\ HasSidecarTime
    /\ exif_time.kind = "naive"
    /\ NaiveGap > TwelveHours
    /\ exif_gps = Sydney
    /\ ts_out.flag
    /\ ts_out.time.tz = "Australia/Sydney"
    /\ Instant(ts_out.time) = Instant(metadata_time)

\* C16: when the embedded time has no offset and is at most 12 hours
\* (inclusive) from the sidecar time, the result is flagged corrected, keeps
\* the embedded wall-clock reading and carries the fixed offset of
\* 0 - floor((sidecar - embedded-as-UTC) in minutes) minutes.
C16_OffsetInferred ==
    (/\ ts_out.called
     /\ HasSidecarTime
     /\ exif_time.kind = "naive"
     /\ NaiveGap <= TwelveHours)
    => /\ ts_out.ok
       /\ ts_out.flag
       /\ ts_out.time.kind = "aware"
       /\ ts_out.time.wall = exif_time.wall
       /\ ts_out.time.off = 0 - ((Instant(metadata_time) - exif_time.wall) \div 60)

C16_Witness ==
    /\ ts_out.called
    /\ HasSidecarTime
    /\ exif_time.kind = "naive"
    /\ Instant(metadata_time) - exif_time.wall = TwelveHours
    /\ ts_out.flag
    /\ ts_out.time.wall = exif_time.wall
    /\ ts_out.time.off = -720

\* C17: when the embedded time carries an offset and denotes another instant
\* than the sidecar time, the result is flagged corrected and is the sidecar
\* instant read in the embedded offset, whatever the gap.
C17_SidecarInEmbeddedOffset ==
    (/\ ts_out.called
     /\ HasSidecarTime
     /\ exif_time.kind = "aware"
     /\ Instant(exif_time) # Instant(metadata_time))
    => ts_out = Returned(TRUE, Aware(Instant(metadata_time) + exif_time.off * 60,
                                     exif_time.off, exif_time.tz))

C17_Witness ==
    /\ ts_out.called
    /\ HasSidecarTime
    /\ exif_time.kind = "aware"
    /\ exif_time.off = 660
    /\ Abs(Instant(exif_time) - Instant(metadata_time)) > TwelveHours
    /\ ts_out.flag
    /\ ts_out.time.off = 660
    /\ Instant(ts_out.time) = Instant(metadata_time)

\* The rows of the decision table that apply to the inputs
BranchesApplying ==
    {b \in 1..5 :
         \/ b = 1 /\ exif_time.kind = "aware"
                  /\ Instant(exif_time) = Instant(metadata_time)
         \/ b = 2 /\ exif_time.kind = "none"
         \/ b = 3 /\ exif_time.kind = "naive" /\ NaiveGap <= TwelveHours
         \/ b = 4 /\ exif_time.kind = "aware"
                  /\ Instant(exif_time) # Instant(metadata_time)
         \/ b = 5 /\ exif_time.kind = "naive" /\ NaiveGap > TwelveHours}

\* C18: for every embedded time (absent, without offset, with offset), all
\* coordinates (absent, resolving, not resolving) and every sidecar time,
\* exactly one row of the decision table applies, the call returns a flag
\* (false in row 1 only) and a timestamp with a zone, never raises, and
\* changes nothing but its result.
C18_TotalAndPure ==
    /\ [][(~ts_out.called /\ ts_out'.called /\ HasSidecarTime)
          => /\ UNCHANGED <<exif_time, exif_gps, metadata_time, mvars, nvars, fvars, pvars>>
             /\ Cardinality(BranchesApplying) = 1
             /\ ts_out'.ok
             /\ ts_out'.flag = (1 \notin BranchesApplying)
             /\ ts_out'.time.kind = "aware"]_vars
    /\ [][ts_out.called => UNCHANGED ts_out]_vars

C18_Witness ==
    /\ ts_out.called
    /\ HasSidecarTime
    /\ exif_time.kind = "naive"
    /\ NaiveGap > TwelveHours
    /\ exif_gps = Ocean
    /\ ts_out = Returned(TRUE, metadata_time)

\* C19: the emitted assets only ever grow by one asset appended at the end,
\* in the very step that reads the entry completing it (the asset holds that
\* entry as its media side or as its sidecar side, from the archive being
\* read); a step that joins emits at once and suspends, and no entry is read
\* while the consumer holds the asset. So the emission order is the order in
\* which the completing halves were read, within and across archives, and
\* an entry causes at most one emission.
C19_EmittedInCompletionOrder ==
    [][/\ emitted' # emitted =>
              /\ nread' = nread + 1
              /\ Len(emitted') = Len(emitted) + 1
              /\ SubSeq(emitted', 1, Len(emitted)) = emitted
              /\ last'.outcome = "matched"
              /\ LET asset == emitted'[Len(emitted')]
                 IN  IF last'.payload = NoPayload
                     THEN /\ asset.filename_from_archive = last'.name
                          /\ asset.archive_filename = tar
                     ELSE /\ asset.takeout_metadata.metadata_filename = last'.key
                          /\ asset.takeout_metadata.tar_name = tar
       /\ (nread' = nread + 1 /\ last'.outcome = "matched") =>
              emitted' # emitted /\ pc' = "yield"
       /\ pc = "yield" => nread' = nread]_vars

\* Two assets, the second emitted for the sidecar that was read first, its
\* media entry coming last and from the second archive.
C19_Witness ==
    /\ Len(emitted) = 2
    /\ emitted[1].filename_from_archive = JpgA
    /\ emitted[2].filename_from_archive = A \o DotPng
    /\ emitted[2].archive_filename = 2
    /\ emitted[2].takeout_metadata.tar_name = 1
    /\ first.name = A \o DotJson
    /\ last.name = A \o DotPng

\* C20: in a step that stores an entry, when the key just processed is in both
\* pending maps the asset emitted is made of the two entries stored under that
\* key, whatever else is pending; and when the step joins two entries stored
\* under different keys, either the entry read is a sidecar whose key has no
\* extension and the media key is that key with ".jpg" appended, or it is a
\* media entry whose key has an extension and the sidecar key is that key
\* without it.
C20_ExactFirstOneFallback ==
    [][(nread' = nread + 1 /\ last'.outcome \in {"stored", "matched"}) =>
           LET key == last'.key
               asset == emitted'[Len(emitted')]
               media_key == Normalise(asset.filename_from_archive).key
               sidecar_key == asset.takeout_metadata.metadata_filename
           IN  /\ (key \in DOMAIN tar_infos' /\ key \in DOMAIN metadata') =>
                      emitted' = Append(emitted,
                                        LocalFile(tar_infos'[key], metadata'[key]))
               /\ (emitted' # emitted /\ media_key # sidecar_key) =>
                      \/ /\ last'.payload # NoPayload
                         /\ SplitExt(key)[2] = <<>>
                         /\ sidecar_key = key
                         /\ media_key = key \o DotJpg
                      \/ /\ last'.payload = NoPayload
                         /\ SplitExt(key)[2] # <<>>
                         /\ media_key = key
                         /\ sidecar_key = SplitExt(key)[1]]_vars

\* An exact join made while the record that the strip-extension fallback
\* would pick is pending too
C20_Witness ==
    /\ pc = "yield"
    /\ last.outcome = "matched"
    /\ last.payload = NoPayload
    /\ last.key = JpgA
    /\ A \in DOMAIN metadata
    /\ emitted[Len(emitted)].takeout_metadata.metadata_filename = JpgA

\* C21: while the consumer holds an asset just emitted (the generator is
\* suspended at its yield), the joined media key is absent from the pending
\* files, the joined sidecar key is absent from the pending metadata, and the
\* asset's key is in the seen set.
C21_RemovedAndSeenBeforeEmit ==
    pc = "yield" =>
        LET asset == emitted[Len(emitted)]
        IN  /\ AssetKey(asset) \notin DOMAIN tar_infos
            /\ asset.takeout_metadata.metadata_filename \notin DOMAIN metadata
            /\ AssetKey(asset) \in seen

\* C22: the step that completes a join (the generator leaves its yield)
\* removes from the pending files exactly the joined media entry and from the
\* pending metadata exactly the joined sidecar record, whether the two were
\* stored under one key or two and whether or not the media entry's raw name
\* is its key; every other pending entry is left as it was.
C22_JoinRemovesExactlyThePair ==
    [][(pc = "yield" /\ pc' # "yield") =>
           LET asset == emitted[Len(emitted)]
           IN  /\ tar_infos' = Without(tar_infos, AssetKey(asset))
               /\ metadata' = Without(metadata,
                                      asset.takeout_metadata.metadata_filename)]_vars

\* C23: nothing is reported as dangling before the cleanup has been called, and
\* once it has been called every key still pending, metadata or file, has been
\* handed to the report exactly once.
DanglingCalls(call, k) ==
    {i \in 1..Len(report) : report[i].call = call /\ k \in report[i].files}

AllDanglingReportedOnce ==
    /\ \A k \in DOMAIN metadata :
           Cardinality(DanglingCalls("hanging_metadata", k)) = 1
    /\ \A k \in DOMAIN tar_infos :
           Cardinality(DanglingCalls("hanging_files", k)) = 1

C23_CleanupThenDanglingReported ==
    /\ ~leftover.called => \A i \in 1..Len(report) : report[i].call = "matched"
    /\ leftover.called => AllDanglingReportedOnce

\* C23, the runs whose cleanup completes: the dangling keys are all reported
\* exactly once, after the cleanup.
C23_ReportedWhenCleanupCompletes ==
    /\ ~leftover.called => \A i \in 1..Len(report) : report[i].call = "matched"
    /\ pc = "done" => leftover.called /\ AllDanglingReportedOnce

\* C25: for a stream of one media entry and one sidecar entry, an asset is
\* emitted in the order that arrived exactly when one is emitted in the other
\* order (where the entry that arrived first triggers the join), and once the
\* second entry is fully processed the pending keys are those the other order
\* leaves.
JoinsWhenLast(entry, media, sidecar) ==
    MatchFiles(entry = sidecar, entry.key, {media.key}, {sidecar.key}).hit

C25_OrderIndependent ==
    \A media \in {first, last} : \A sidecar \in {first, last} :
        (/\ nread = 2
         /\ media # sidecar
         /\ IsMediaEntry(media)
         /\ IsSidecarEntry(sidecar))
        => /\ (Len(emitted) = 1) <=> JoinsWhenLast(first, media, sidecar)
           /\ pc = "read" =>
                  /\ DOMAIN tar_infos =
                         IF JoinsWhenLast(first, media, sidecar) THEN {}
                         ELSE {media.key}
                  /\ DOMAIN metadata =
                         IF JoinsWhenLast(first, media, sidecar) THEN {}
                         ELSE {sidecar.key}

\* C26: once the cleanup has been called the run has completed: the cleanup
\* did not fail on any leftover.
C26_CleanupNeverFails ==
    leftover.called => pc = "done"

\* C27: the seen set handed to the cleanup holds the canonical key of the
\* media entry of every asset emitted during the run.
C27_SeenHoldsEmittedMediaKeys ==
    leftover.called =>
        \A i \in 1..Len(emitted) : AssetKey(emitted[i]) \in seen

\* C28: whenever the generator is between two entries or has finished, no key
\* is pending both as a file and as metadata, every pending metadata record is
\* stamped with the key it is stored under, and no key has been reported both
\* as dangling metadata and as a dangling file.
C28_PendingMapsDisjoint ==
    pc \in {"read", "done"} =>
        /\ DOMAIN tar_infos \cap DOMAIN metadata = {}
        /\ \A k \in DOMAIN metadata : metadata[k].metadata_filename = k
        /\ \A i \in 1..Len(report) : \A j \in 1..Len(report) :
               (report[i].call = "hanging_metadata" /\ report[j].call = "hanging_files")
               => report[i].files \cap report[j].files = {}

\* An exact join has been completed while another file and another sidecar,
\* which do not join each other, stay pending.
C28_Witness ==
    /\ pc = "read"
    /\ last.outcome = "matched"
    /\ \E i \in 1..Len(emitted) :
           AssetKey(emitted[i]) = emitted[i].takeout_metadata.metadata_filename
    /\ tar_infos # EmptyMap
    /\ metadata # EmptyMap

\* C30: the timestamp check_timestamp_exif returns denotes an instant t with
\* sidecar - 60 s < t <= sidecar: the sidecar instant itself in every row but
\* the offset inference, where it is at most 59 seconds earlier and the
\* inferred offset lies within -720..720 minutes.
C30_ReturnedInstantNearSidecar ==
    (ts_out.called /\ HasSidecarTime)
    => /\ ts_out.ok
       /\ ts_out.time.kind = "aware"
       /\ Instant(ts_out.time) > Instant(metadata_time) - 60
       /\ Instant(ts_out.time) <= Instant(metadata_time)
       /\ 3 \notin BranchesApplying
              => Instant(ts_out.time) = Instant(metadata_time)
       /\ 3 \in BranchesApplying
              => /\ Instant(metadata_time) - Instant(ts_out.time) \in 0..59
                 /\ ts_out.time.off \in (0 - 720)..720

\* The offset inference returned an instant 59 seconds before the sidecar's.
C30_Witness ==
    /\ ts_out.called
    /\ HasSidecarTime
    /\ exif_time.kind = "naive"
    /\ NaiveGap <= TwelveHours
    /\ ts_out.ok
    /\ Instant(ts_out.time) = Instant(metadata_time) - 59

\* C29: a JPEG whose embedded time comes with an offset text of the form
\* +HH:MM or -HH:MM is processed without failure, and the embedded time
\* process_files records for it carries the offset sign x (HH x 60 + MM)
\* minutes.
TestedItem == items[1]

SignedOffsetTag ==
    /\ TestedItem.exif.loads
    /\ TestedItem.exif.dto.kind = "ok"
    /\ TestedItem.exif.oto.present
    /\ MatchOffset(TestedItem.exif.oto.text).ok
    /\ MatchOffset(TestedItem.exif.oto.text).sign # <<>>

IntendedOffset(text) ==
    LET m == MatchOffset(text)
    IN  (IF m.sign = <<"-">> THEN -1 ELSE 1)
            * (IntOfTwoDigits(m.hours) * 60 + IntOfTwoDigits(m.minutes))

C29_OffsetTextDecoded ==
    (/\ item_no >= 1
     /\ SignedOffsetTag
     /\ TestedItem.metadata_time # NoTime)
    => /\ Len(downstream) >= 1
       /\ downstream[1].exif_original_time.kind = "aware"
       /\ downstream[1].exif_original_time.off =
              IntendedOffset(TestedItem.exif.oto.text)

\* C29, the offsets below a day that are positive or of whole hours: the
\* decoded offset is the one written.
C29_WholeHoursDecoded ==
    (/\ item_no >= 1
     /\ SignedOffsetTag
     /\ TestedItem.metadata_time # NoTime
     /\ \/ MatchOffset(TestedItem.exif.oto.text).minutes = <<"0", "0">>
        \/ MatchOffset(TestedItem.exif.oto.text).sign = <<"+">>
     /\ IntOfTwoDigits(MatchOffset(TestedItem.exif.oto.text).hours) < 24)
    => /\ Len(downstream) >= 1
       /\ downstream[1].exif_original_time.kind = "aware"
       /\ downstream[1].exif_original_time.off =
              IntendedOffset(TestedItem.exif.oto.text)

\* C24: when the embedded timing data of a JPEG with a sidecar time cannot be
\* parsed (the EXIF block does not load, the embedded time is not a date, or
\* the embedded offset is not an offset), the item is yielded once, not
\* flagged as corrected, with the sidecar time as its time, and the item
\* after it is processed as well.
IsOwnJpeg(item) ==
    /\ ~item.partner
    /\ FileExtension(item) \in {<<".", "j", "p", "e", "g">>, DotJpg}
    /\ item.metadata_time # NoTime

ExifDoesNotLoad(item) == ~item.exif.loads

DateDoesNotParse(item) == item.exif.loads /\ item.exif.dto.kind = "malformed"

OffsetDoesNotParse(item) ==
    /\ item.exif.loads
    /\ item.exif.dto.kind = "ok"
    /\ item.exif.oto.present
    /\ ~MatchOffset(item.exif.oto.text).ok

PassedUnverified ==
    /\ proc_pc # "failed"
    /\ Len(downstream) >= 1
    /\ downstream[1].name = TestedItem.name
    /\ ~downstream[1].timestamp_differs
    /\ downstream[1].original_time = TestedItem.metadata_time
    /\ item_no = MaxItems => Len(downstream) = MaxItems

C24_ParseFailureNotFatal ==
    (/\ item_no >= 1
     /\ IsOwnJpeg(TestedItem)
     /\ \/ ExifDoesNotLoad(TestedItem)
        \/ DateDoesNotParse(TestedItem)
        \/ OffsetDoesNotParse(TestedItem))
    => PassedUnverified

\* C24, the EXIF block that does not load: the item is passed on as it came.
C24_UnloadableExifPassedOn ==
    (/\ item_no >= 1
     /\ IsOwnJpeg(TestedItem)
     /\ ExifDoesNotLoad(TestedItem))
    => PassedUnverified

\* C24, the embedded time that is not a date: the item is yielded, and the
\* item after it, but flagged as corrected.
C24_BadDateFlaggedCorrected ==
    (/\ item_no >= 1
     /\ IsOwnJpeg(TestedItem)
     /\ DateDoesNotParse(TestedItem))
    => /\ proc_pc # "failed"
       /\ Len(downstream) >= 1
       /\ downstream[1].timestamp_differs
       /\ Instant(downstream[1].original_time) = Instant(TestedItem.metadata_time)

\* C24, the embedded offset that is not an offset: process_files fails and
\* yields nothing.
C24_BadOffsetFatal ==
    (/\ item_no >= 1
     /\ IsOwnJpeg(TestedItem)
     /\ OffsetDoesNotParse(TestedItem))
    => /\ proc_pc = "failed"
       /\ downstream = <<>>
====
